---- MODULE Spec2Model ----
(***************************************************************************)
(* State-machine model of the live quiz orchestration of                   *)
(* netojaycee/quiz-app: the socket gateway (src/src/quiz/quiz.gateway.ts), *)
(* the cache service (RedisService, src/src/redis/redis.module.ts), the    *)
(* scoring service (QuizService, src/src/quiz/quiz.service.ts) and the     *)
(* question supply (QuestionsService,                                      *)
(* src/src/questions/questions.service.ts).                                *)
(*                                                                         *)
(* One quiz is modelled.  Every handler of the gateway is one action that  *)
(* runs to completion (a handler awaits each call before the next one).    *)
(* A handler is an operator from the stored state and the command to the   *)
(* result: the error (if any), the events it emits, and the stored state   *)
(* it leaves; the action of the handler installs that state.               *)
(* Cache entries are partial functions: a key is present exactly when it   *)
(* is in the DOMAIN.  Cache expiry (the one-hour and five-minute TTLs) is  *)
(* outside the model: a session is taken to be shorter than the TTL.       *)
(***************************************************************************)
EXTENDS Integers, Sequences, FiniteSets, TLC

\* ---------------------------------------------------------------- bounds
NumContestants == 2
NumRounds == 2
\* questions of the largest quiz, and of the quiz whose session is played
NumQuestions == 3
PlayedQuestions == 2
MaxQpp == 2
\* a session is followed until this many Responses have been persisted
MaxResponses == 2
\* and while at most this many selections wait for their confirmation
MaxSelections == 1

\* options of a question: a yes_no question has exactly two
NumOptions == 2

\* ------------------------------------------------------------ identifiers
NULL == "null"
QuizId == "quiz"
UnknownRound == "r?"

UserId(i) == "u" \o ToString(i)
RoundId(i) == "r" \o ToString(i)
QuestionId(i) == "q" \o ToString(i)

Contestants == {UserId(i) : i \in 1..NumContestants}
ModeratorId == "mod"
Clients == Contestants \cup {ModeratorId}
RoundIds == {RoundId(i) : i \in 1..NumRounds}

\* a second quiz served by the same gateway, database and cache: its round,
\* its question and its contestant
OtherQuiz == "quizB"
OtherRound == "rB"
OtherQuestion == "qB"
OtherUser == "uB"
Options == 0..(NumOptions - 1)

QuizTypes == {"multiple_choice", "yes_no", "simultaneous"}

\* a registry that records every client as a moderator
RoleAlwaysModerator(c) == "MODERATOR"

\* connectedUsers.get(client.id).role, as set by handleConnection
Role(c) == IF c = ModeratorId THEN "MODERATOR" ELSE "CONTESTANT"

\* ------------------------------------------------------- partial functions
EmptyMap == [k \in {} |-> NULL]
Has(f, k) == k \in DOMAIN f
Put(f, k, v) == [x \in (DOMAIN f) \cup {k} |-> IF x = k THEN v ELSE f[x]]
Del(f, k) == [x \in (DOMAIN f) \ {k} |-> f[x]]

Min2(a, b) == IF a <= b THEN a ELSE b
Max2(a, b) == IF a >= b THEN a ELSE b

\* Math.ceil(n * 1.25) for a non-negative integer n
CeilFiveQuarters(n) == (5 * n + 3) \div 4
\* Math.ceil(a / b) for a >= 0, b > 0
CeilDiv(a, b) == (a + b - 1) \div b

\* ---------------------------------------------------------------- state
VARIABLES
    dbRounds,              \* Round table: id -> [quizId, roundNumber, quizType, questionsPerParticipant, isActive]
    dbQuestions,           \* Question table: id -> [quizId, questionNumber, questionType, correctAnswerIndex, isAnswered]
    dbParticipantOrder,    \* ParticipantOrder table: set of [quizId, userId, orderIndex]
    dbResponses,           \* Response table: set of rows
    dbScores,              \* Score table: rows [userId, quizId, roundId, roundScore, questionsAnswered, questionsCorrect], in insertion order
    quizQuestionsCache,    \* quiz:{quizId}:questions
    roundQuestionsCache,   \* quiz:{quizId}:round:{roundId}:questions
    participantsCache,     \* quiz:{quizId}:participants
    activeParticipantCache,\* quiz:{quizId}:active_participant
    currentQuestionCache,  \* quiz:{quizId}:round:{roundId}:current_question
    selectedAnswerCache,   \* quiz:{quizId}:selected_answer:{questionId}
    answeredQuestionsCache,\* quiz:{quizId}:answered_questions
    bonusState,            \* QuizGateway.bonusState (in-memory Map)
    bonusTimer             \* pending setTimeout(autoAdvanceAfterBonus): set of roundIds

dbVars == <<dbRounds, dbQuestions, dbParticipantOrder, dbResponses, dbScores>>
cacheVars == <<quizQuestionsCache, roundQuestionsCache, participantsCache,
               activeParticipantCache, currentQuestionCache, selectedAnswerCache,
               answeredQuestionsCache>>
vars == <<dbRounds, dbQuestions, dbParticipantOrder, dbResponses, dbScores,
          quizQuestionsCache, roundQuestionsCache, participantsCache,
          activeParticipantCache, currentQuestionCache, selectedAnswerCache,
          answeredQuestionsCache, bonusState, bonusTimer>>

\* ------------------------------------------------------------ persistence
\* prisma.question rows of the quiz; questionNumber is the tile number
QuestionTypeOf(n) == IF n % 3 = 0 THEN "yes_no" ELSE "multiple_choice"
QuestionRow(n, answered) ==
    [quizId |-> QuizId,
     questionNumber |-> n,
     questionType |-> QuestionTypeOf(n),
     correctAnswerIndex |-> n % NumOptions,
     isAnswered |-> answered]

NumberOf(q) == dbQuestions[q].questionNumber

\* findMany(... orderBy: { questionNumber: 'asc' }) over a set of question ids
RECURSIVE ByQuestionNumber(_)
ByQuestionNumber(S) ==
    IF S = {} THEN <<>>
    ELSE LET q == CHOOSE x \in S : \A y \in S : NumberOf(x) <= NumberOf(y)
         IN <<q>> \o ByQuestionNumber(S \ {q})

\* the `take` argument of findMany
Take(s, n) == SubSeq(s, 1, Min2(n, Len(s)))

\* participantOrder.findMany(... orderBy: { orderIndex: 'asc' })
RECURSIVE ByOrderIndex(_)
ByOrderIndex(rows) ==
    IF rows = {} THEN <<>>
    ELSE LET p == CHOOSE x \in rows : \A y \in rows : x.orderIndex <= y.orderIndex
         IN <<p>> \o ByOrderIndex(rows \ {p})

\* user.findMany({ where: { quizId, role: 'CONTESTANT' } }), in creation order
RECURSIVE ContestantSeq(_)
ContestantSeq(n) == IF n = 0 THEN <<>> ELSE Append(ContestantSeq(n - 1), UserId(n))

\* ---------------------------------------------------------- QuizService
RECURSIVE SumPoints(_)
SumPoints(S) ==
    IF S = {} THEN 0
    ELSE LET x == CHOOSE y \in S : TRUE
         IN x.pointsEarned + SumPoints(S \ {x})

\* a submitResponse that skips the look-up of an earlier Response
NoExistingResponse(responses, u, q) == {}

\* prisma.response.findUnique({ where: { userId_questionId } })
ExistingResponse(responses, u, q) ==
    {x \in responses : x.userId = u /\ x.questionId = q}

\* calculateRoundScore: the Score row of (userId, roundId), recomputed from
\* the Response rows and upserted
RoundScoreRow(responses, u, quiz, r) ==
    LET mine == {x \in responses : x.userId = u /\ x.quizId = quiz /\ x.roundId = r}
    IN [userId |-> u, quizId |-> quiz, roundId |-> r,
        roundScore |-> SumPoints(mine),
        questionsAnswered |-> Cardinality(mine),
        questionsCorrect |-> Cardinality({x \in mine : x.isCorrect})]

\* a calculateRoundScore that creates a Score row each time instead of upserting
AppendRoundScore(scores, responses, u, quiz, r) ==
    Append(scores, RoundScoreRow(responses, u, quiz, r))

calculateRoundScore(scores, responses, u, quiz, r) ==
    LET row == RoundScoreRow(responses, u, quiz, r)
        same(s) == s.userId = u /\ s.quizId = quiz /\ s.roundId = r
    IN IF \E i \in 1..Len(scores) : same(scores[i])
       THEN [i \in 1..Len(scores) |->
                IF same(scores[i]) THEN row ELSE scores[i]]
       ELSE Append(scores, row)

\* the unique index Response_userId_questionId_key
ViolatesResponseKey(responses, row) ==
    \E x \in responses : x.userId = row.userId /\ x.questionId = row.questionId

\* submitResponse: the outcome and the tables after it
submitResponse(u, q, sel, r, points, isCorrect) ==
    IF ~Has(dbQuestions, q)
    THEN [err |-> "Question not found", responses |-> dbResponses, scores |-> dbScores]
    ELSE IF ExistingResponse(dbResponses, u, q) # {}
    THEN [err |-> "User has already answered this question", responses |-> dbResponses, scores |-> dbScores]
    ELSE LET row == [userId |-> u, quizId |-> dbQuestions[q].quizId,
                     roundId |-> r, questionId |-> q,
                     selectedIndex |-> sel, isCorrect |-> isCorrect,
                     pointsEarned |-> points]
             responses == dbResponses \cup {row}
         IN IF ViolatesResponseKey(dbResponses, row)
            THEN [err |-> "Unique constraint failed", responses |-> dbResponses, scores |-> dbScores]
            ELSE [err |-> "none", responses |-> responses,
                  scores |-> calculateRoundScore(dbScores, responses, u,
                                                dbQuestions[q].quizId, r)]

\* getQuizLeaderboard: totals grouped by user in first-seen order of the
\* Score rows, sorted by total (descending, stable), position = index + 1
RECURSIVE FirstSeen(_)
FirstSeen(scores) ==
    IF scores = <<>> THEN <<>>
    ELSE LET front == FirstSeen(SubSeq(scores, 1, Len(scores) - 1))
             u == scores[Len(scores)].userId
         IN IF \E i \in 1..Len(front) : front[i] = u THEN front ELSE Append(front, u)

RECURSIVE TotalScore(_, _)
TotalScore(scores, u) ==
    IF scores = <<>> THEN 0
    ELSE (IF scores[1].userId = u THEN scores[1].roundScore ELSE 0)
         + TotalScore(Tail(scores), u)

RECURSIVE SortDescending(_)
SortDescending(entries) ==
    IF entries = <<>> THEN <<>>
    ELSE LET front == SortDescending(SubSeq(entries, 1, Len(entries) - 1))
             e == entries[Len(entries)]
             k == Cardinality({i \in 1..Len(front) : front[i].totalScore >= e.totalScore})
         IN SubSeq(front, 1, k) \o <<e>> \o SubSeq(front, k + 1, Len(front))

\* score.findMany({ where: { quizId } }): the Score rows of the quiz
IsOfQuiz(row) == row.quizId = QuizId
ScoresOfQuiz(scores) == SelectSeq(scores, IsOfQuiz)

\* a leaderboard that numbers the totals in first-seen order, without sorting
leaderboardUnsorted(scores) ==
    LET mine == ScoresOfQuiz(scores)
        users == FirstSeen(mine)
    IN [i \in 1..Len(users) |->
          [position |-> i, userId |-> users[i],
           totalScore |-> TotalScore(mine, users[i])]]

getQuizLeaderboard(scores) ==
    LET mine == ScoresOfQuiz(scores)
        users == FirstSeen(mine)
        entries == [i \in 1..Len(users) |->
                      [userId |-> users[i], totalScore |-> TotalScore(mine, users[i])]]
        sorted == SortDescending(entries)
    IN [i \in 1..Len(sorted) |->
          [position |-> i, userId |-> sorted[i].userId, totalScore |-> sorted[i].totalScore]]

\* ---------------------------------------------------------- RedisService
\* validateAnswer: correctness from the cached question snapshot
validateAnswer(q, sel) ==
    IF ~Has(quizQuestionsCache, QuizId)
    THEN [err |-> "Questions not cached for this quiz"]
    ELSE IF ~Has(quizQuestionsCache[QuizId], q)
    THEN [err |-> "Question not found in cache"]
    ELSE LET question == quizQuestionsCache[QuizId][q]
         IN [err |-> "none",
             isCorrect |-> (sel = question.correctAnswerIndex),
             correctAnswerIndex |-> question.correctAnswerIndex]

\* a markQuestionAsAnswered that pushes the id whether or not the list has it
markWithoutLookup(answered, q) ==
    Put(answered, QuizId,
        Append(IF Has(answered, QuizId) THEN answered[QuizId] ELSE <<>>, q))

\* markQuestionAsAnswered: push unless already included
markQuestionAsAnswered(answered, q) ==
    LET list == IF Has(answered, QuizId) THEN answered[QuizId] ELSE <<>>
    IN IF \E i \in 1..Len(list) : list[i] = q
       THEN answered
       ELSE Put(answered, QuizId, Append(list, q))

\* ---------------------------------------------------------------- results
\* the element of a singleton.  An awaited result is bound as the element
\* of { f(x) : x \in {result} }, so that it is computed once.
The(S) == CHOOSE x \in S : TRUE

\* the stored state as one record, and the action that installs a record
Stored ==
    [dbRounds |-> dbRounds, dbQuestions |-> dbQuestions,
     dbParticipantOrder |-> dbParticipantOrder, dbResponses |-> dbResponses,
     dbScores |-> dbScores, quizQuestionsCache |-> quizQuestionsCache,
     roundQuestionsCache |-> roundQuestionsCache,
     participantsCache |-> participantsCache,
     activeParticipantCache |-> activeParticipantCache,
     currentQuestionCache |-> currentQuestionCache,
     selectedAnswerCache |-> selectedAnswerCache,
     answeredQuestionsCache |-> answeredQuestionsCache,
     bonusState |-> bonusState, bonusTimer |-> bonusTimer]

Install(st) ==
    /\ dbRounds' = st.dbRounds
    /\ dbQuestions' = st.dbQuestions
    /\ dbParticipantOrder' = st.dbParticipantOrder
    /\ dbResponses' = st.dbResponses
    /\ dbScores' = st.dbScores
    /\ quizQuestionsCache' = st.quizQuestionsCache
    /\ roundQuestionsCache' = st.roundQuestionsCache
    /\ participantsCache' = st.participantsCache
    /\ activeParticipantCache' = st.activeParticipantCache
    /\ currentQuestionCache' = st.currentQuestionCache
    /\ selectedAnswerCache' = st.selectedAnswerCache
    /\ answeredQuestionsCache' = st.answeredQuestionsCache
    /\ bonusState' = st.bonusState
    /\ bonusTimer' = st.bonusTimer

\* client.emit('error', { message }) followed by return: nothing is stored
Rejected(message) ==
    [err |-> message,
     emits |-> <<[event |-> "error", to |-> "client", message |-> message]>>,
     next |-> Stored]

\* the catch block of a handler: client.emit('error', { message, details })
Thrown(message, details, st) ==
    [err |-> details,
     emits |-> <<[event |-> "error", to |-> "client", message |-> message,
                  details |-> details]>>,
     next |-> st]

EventNames(res) == {res.emits[i].event : i \in 1..Len(res.emits)}
Emitted(res, name) == {res.emits[i] : i \in {j \in 1..Len(res.emits) : res.emits[j].event = name}}

\* ---------------------------------------------------------- QuizGateway
\* processAnswer: which kind of answer this is (mode and bonus state)
answerTypeOf(r, u) ==
    IF Has(dbRounds, r) /\ dbRounds[r].quizType = "simultaneous"
    THEN "normal"
    ELSE IF Has(bonusState, QuizId) /\ bonusState[QuizId].isActive
            /\ bonusState[QuizId].bonusUserId = u
    THEN "bonus"
    ELSE IF Has(bonusState, QuizId) /\ ~bonusState[QuizId].isActive
            /\ bonusState[QuizId].originalUserId = u
    THEN "original_return"
    ELSE "normal"

\* a processAnswer that scores a bonus answer like a regular sequential one
pointsOfWithoutBonus(r, answerType, isCorrect) ==
    IF Has(dbRounds, r) /\ dbRounds[r].quizType = "simultaneous"
    THEN (IF isCorrect THEN 5 ELSE 0)
    ELSE (IF isCorrect THEN 2 ELSE 0)

\* processAnswer: the points of an answer
pointsOf(r, answerType, isCorrect) ==
    IF Has(dbRounds, r) /\ dbRounds[r].quizType = "simultaneous"
    THEN (IF isCorrect THEN 5 ELSE 0)
    ELSE IF answerType = "bonus"
    THEN (IF isCorrect THEN 1 ELSE 0)
    ELSE (IF isCorrect THEN 2 ELSE 0)

\* processAnswer rethrows: only the bonus state, cleared before the Response
\* is saved, may have changed
AnswerFailed(err, bonus) ==
    [err |-> err, isCorrect |-> FALSE, points |-> 0, answerType |-> "normal",
     correctAnswerIndex |-> 0 - 1, emits |-> <<>>,
     next |-> [Stored EXCEPT !.bonusState = bonus]]

\* processAnswer: validate, score, persist, mark answered, broadcast
processAnswer(r, u, q, sel) ==
    LET v == validateAnswer(q, sel)
    IN IF v.err # "none"
       THEN AnswerFailed(v.err, bonusState)
       ELSE LET kind == answerTypeOf(r, u)
                points == pointsOf(r, kind, v.isCorrect)
                bonus == IF kind = "original_return" THEN Del(bonusState, QuizId)
                         ELSE bonusState
            IN IF ~Has(dbRounds, r)
               THEN AnswerFailed("TypeError", bonus)
               ELSE The({
                       IF sub.err # "none"
                       THEN AnswerFailed(sub.err, bonus)
                       ELSE [err |-> "none",
                             isCorrect |-> v.isCorrect, points |-> points,
                             answerType |-> kind,
                             correctAnswerIndex |-> v.correctAnswerIndex,
                             emits |-> <<[event |-> "answerResult", to |-> "room",
                                          userId |-> u, questionId |-> q,
                                          isCorrect |-> v.isCorrect, points |-> points,
                                          answerType |-> kind],
                                         [event |-> "leaderboardUpdate", to |-> "room",
                                          leaderboard |-> getQuizLeaderboard(sub.scores)]>>,
                             next |-> [Stored EXCEPT
                                 !.dbResponses = sub.responses,
                                 !.dbScores = sub.scores,
                                 !.answeredQuestionsCache =
                                     IF kind # "bonus" THEN markQuestionAsAnswered(@, q) ELSE @,
                                 !.bonusState = bonus,
                                 !.bonusTimer = IF kind = "original_return"
                                                THEN @ \cup {r} ELSE @]]
                       : sub \in {submitResponse(u, q, sel, r, points, v.isCorrect)} })

\* participantOrder.findIndex(p => p.userId === activeUserId), zero-based
FindIndex(order, u) ==
    IF \E i \in 1..Len(order) : order[i].userId = u
    THEN (CHOOSE i \in 1..Len(order) :
              order[i].userId = u /\ \A j \in 1..(i - 1) : order[j].userId # u) - 1
    ELSE 0 - 1

\* the next turn: the following participant of the cached order, and the
\* following question once the order wraps; past the last question the
\* round is marked inactive.  With an empty order the participant index is
\* NaN and setActiveParticipant throws, which is caught.
Advance(st, r, activeUserId) ==
    LET order == st.participantsCache[QuizId]
        questions == st.roundQuestionsCache[r]
        index == IF Has(st.currentQuestionCache, r) THEN st.currentQuestionCache[r] ELSE 0
        current == FindIndex(order, activeUserId)
        nextParticipantIndex == IF Len(order) = 0 THEN 0 - 1
                                ELSE (current + 1) % Len(order)
        nextQuestionIndex == IF nextParticipantIndex = 0 THEN index + 1 ELSE index
    IN IF nextQuestionIndex >= Len(questions)
       THEN [emits |-> <<[event |-> "roundCompleted", to |-> "room", roundId |-> r]>>,
             next |-> [st EXCEPT !.dbRounds[r].isActive = FALSE]]
       ELSE IF Len(order) = 0
       THEN [emits |-> <<>>, next |-> st]
       ELSE [emits |-> <<[event |-> "nextParticipant", to |-> "room",
                          activeUserId |-> order[nextParticipantIndex + 1].userId,
                          currentQuestion |-> questions[nextQuestionIndex + 1],
                          questionIndex |-> nextQuestionIndex]>>,
             next |-> [st EXCEPT
                 !.activeParticipantCache =
                     Put(@, QuizId, order[nextParticipantIndex + 1].userId),
                 !.currentQuestionCache = Put(@, r, nextQuestionIndex)]]

\* a proceedToNext that takes a round without cached questions for a round
\* with no questions left, and marks the round of that id inactive
proceedToNextWithoutList(st, r) ==
    IF ~Has(st.participantsCache, QuizId) \/ ~Has(st.activeParticipantCache, QuizId)
    THEN [emits |-> <<>>, next |-> st]
    ELSE IF ~Has(st.roundQuestionsCache, r)
    THEN [emits |-> <<[event |-> "roundCompleted", to |-> "room", roundId |-> r]>>,
          next |-> IF Has(st.dbRounds, r)
                   THEN [st EXCEPT !.dbRounds[r].isActive = FALSE]
                   ELSE st]
    ELSE Advance(st, r, st.activeParticipantCache[QuizId])

\* proceedToNext: no order in the cache or no active participant returns at
\* once; a round without cached questions throws and is caught
proceedToNext(st, r) ==
    IF ~Has(st.participantsCache, QuizId) \/ ~Has(st.activeParticipantCache, QuizId)
    THEN [emits |-> <<>>, next |-> st]
    ELSE IF ~Has(st.roundQuestionsCache, r)
    THEN [emits |-> <<>>, next |-> st]
    ELSE Advance(st, r, st.activeParticipantCache[QuizId])

\* a selectAnswer that stores the selection of any contestant
selectAnswerOfAnyone(c, q, sel) ==
    IF Role(c) # "CONTESTANT"
    THEN Rejected("Only contestants can select answers")
    ELSE [err |-> "none",
          emits |-> <<[event |-> "answerSelected", to |-> "room", userId |-> c,
                       questionId |-> q, selectedIndex |-> sel]>>,
          next |-> [Stored EXCEPT !.selectedAnswerCache =
                       Put(@, q, [userId |-> c, selectedIndex |-> sel])]]

\* @SubscribeMessage('selectAnswer')
handleSelectAnswer(c, q, sel) ==
    IF Role(c) # "CONTESTANT"
    THEN Rejected("Only contestants can select answers")
    ELSE IF ~Has(activeParticipantCache, QuizId) \/ activeParticipantCache[QuizId] # c
    THEN Rejected("Only the active participant can select an answer")
    ELSE [err |-> "none",
          emits |-> <<[event |-> "answerSelected", to |-> "room", userId |-> c,
                       questionId |-> q, selectedIndex |-> sel]>>,
          next |-> [Stored EXCEPT !.selectedAnswerCache =
                       Put(@, q, [userId |-> c, selectedIndex |-> sel])]]

\* a confirmAnswer that does not look for a pending selection: it scores the
\* selection if there is one, and option 0 for the active participant if not
confirmWithoutSelection(c, r, q) ==
    IF Role(c) # "MODERATOR"
    THEN Rejected("Only moderators can confirm answers")
    ELSE IF ~Has(selectedAnswerCache, q) /\ ~Has(activeParticipantCache, QuizId)
    THEN Rejected("No active participant found")
    ELSE LET u == IF Has(selectedAnswerCache, q) THEN selectedAnswerCache[q].userId
                  ELSE activeParticipantCache[QuizId]
             sel == IF Has(selectedAnswerCache, q)
                    THEN selectedAnswerCache[q].selectedIndex ELSE 0
         IN The({
            IF pa.err # "none"
            THEN Thrown("Failed to confirm answer", pa.err, pa.next)
            ELSE [err |-> "none", emits |-> pa.emits,
                  next |-> [pa.next EXCEPT !.selectedAnswerCache = Del(@, q)]]
            : pa \in {processAnswer(r, u, q, sel)} })

\* @SubscribeMessage('confirmAnswer')
handleConfirmAnswer(c, r, q) ==
    IF Role(c) # "MODERATOR"
    THEN Rejected("Only moderators can confirm answers")
    ELSE IF ~Has(selectedAnswerCache, q)
    THEN Rejected("No answer selected for this question")
    ELSE LET selected == selectedAnswerCache[q]
         IN The({
            IF pa.err # "none"
            THEN Thrown("Failed to confirm answer", pa.err, pa.next)
            ELSE The({ [err |-> "none", emits |-> pa.emits \o turn.emits,
                        next |-> turn.next]
                       : turn \in {proceedToNext(
                             [pa.next EXCEPT !.selectedAnswerCache = Del(@, q)], r)} })
            : pa \in {processAnswer(r, selected.userId, q, selected.selectedIndex)} })

\* @SubscribeMessage('autoConfirmAnswer')
handleAutoConfirmAnswer(c, r, q, sel) ==
    IF Role(c) # "MODERATOR"
    THEN Rejected("Only moderators can auto-confirm answers")
    ELSE IF ~Has(activeParticipantCache, QuizId)
    THEN Rejected("No active participant found")
    ELSE LET activeUserId == activeParticipantCache[QuizId]
         IN The({
            IF pa.err # "none"
            THEN Thrown("Failed to auto-confirm answer", pa.err, pa.next)
            ELSE The({
                 [err |-> "none",
                  emits |-> pa.emits
                            \o <<[event |-> "answerAutoConfirmed", to |-> "room",
                                  questionId |-> q, userId |-> activeUserId,
                                  selectedIndex |-> sel, isCorrect |-> pa.isCorrect,
                                  points |-> pa.points,
                                  correctAnswerIndex |-> pa.correctAnswerIndex]>>
                            \o turn.emits,
                  next |-> turn.next]
                 : turn \in {proceedToNext(pa.next, r)} })
            : pa \in {processAnswer(r, activeUserId, q, sel)} })

\* @SubscribeMessage('submitSimultaneousAnswer')
handleSubmitSimultaneousAnswer(c, r, q, sel) ==
    IF Role(c) # "CONTESTANT"
    THEN Rejected("Only contestants can submit answers")
    ELSE The({
            IF pa.err # "none"
            THEN Thrown("Failed to submit answer", pa.err, pa.next)
            ELSE [err |-> "none",
                  emits |-> pa.emits
                            \o <<[event |-> "answerSubmitted", to |-> "client",
                                  questionId |-> q, isCorrect |-> pa.isCorrect,
                                  points |-> pa.points,
                                  correctAnswerIndex |-> pa.correctAnswerIndex]>>,
                  next |-> pa.next]
            : pa \in {processAnswer(r, c, q, sel)} })

\* an auto-advance that does not read the bonus state: it moves the turn
\* whenever it runs
autoAdvanceUnconditionally(r) ==
    LET st == [Stored EXCEPT !.bonusTimer = @ \ {r}]
    IN IF Has(participantsCache, QuizId) /\ Has(roundQuestionsCache, r)
       THEN Advance(st, r, IF Has(activeParticipantCache, QuizId)
                           THEN activeParticipantCache[QuizId] ELSE NULL)
            @@ [err |-> "none"]
       ELSE [err |-> "none", emits |-> <<>>, next |-> st]

\* autoAdvanceAfterBonus, run by the timer processAnswer sets after an
\* original_return answer: advances only while a finished bonus state is
\* still stored; a missing order or question list throws and is caught
autoAdvanceAfterBonus(r) ==
    LET st == [Stored EXCEPT !.bonusTimer = @ \ {r}]
    IN IF Has(bonusState, QuizId) /\ ~bonusState[QuizId].isActive
          /\ Has(participantsCache, QuizId) /\ Has(roundQuestionsCache, r)
       THEN Advance(st, r, IF Has(activeParticipantCache, QuizId)
                           THEN activeParticipantCache[QuizId] ELSE NULL)
            @@ [err |-> "none"]
       ELSE [err |-> "none", emits |-> <<>>, next |-> st]

\* a 'dispatchBonus' message: the gateway subscribes to no such message, so
\* it reaches no handler; nothing is stored and nothing is emitted
handleDispatchBonus(c, q) ==
    [err |-> "none", emits |-> <<>>, next |-> Stored]

\* @SubscribeMessage('skipQuestion')
handleSkipQuestion(c, n) ==
    IF Role(c) # "CONTESTANT"
    THEN Rejected("Only contestants can skip questions")
    ELSE [err |-> "none",
          emits |-> <<[event |-> "questionSkipped", to |-> "client",
                       questionNumber |-> n]>>,
          next |-> Stored]

\* calculateUserRoundScore of the gateway
calculateUserRoundScore(r, u) ==
    SumPoints({x \in dbResponses :
                  x.quizId = QuizId /\ x.roundId = r /\ x.userId = u})

\* an endSimultaneousSession that closes the round for everyone when one
\* contestant ends their session
endSessionClosingRound(c, r) ==
    IF Role(c) # "CONTESTANT"
    THEN Rejected("Only contestants can end sessions")
    ELSE LET roundScore == calculateUserRoundScore(r, c)
         IN [err |-> "none",
             emits |-> <<[event |-> "simultaneousSessionEnded", to |-> "client",
                          roundId |-> r, finalScore |-> roundScore]>>,
             next |-> IF Has(dbRounds, r)
                      THEN [Stored EXCEPT !.dbRounds[r].isActive = FALSE]
                      ELSE Stored]

\* @SubscribeMessage('endSimultaneousSession')
handleEndSimultaneousSession(c, r) ==
    IF Role(c) # "CONTESTANT"
    THEN Rejected("Only contestants can end sessions")
    ELSE LET roundScore == calculateUserRoundScore(r, c)
         IN [err |-> "none",
             emits |-> <<[event |-> "simultaneousSessionEnded", to |-> "client",
                          roundId |-> r, finalScore |-> roundScore],
                         [event |-> "userCompletedRound", to |-> "others",
                          userId |-> c, score |-> roundScore]>>,
             next |-> Stored]

\* ------------------------------------------------------ participant order
\* participantOrder.findMany({ where: { quizId } })
OrderRowsOfQuiz == {p \in dbParticipantOrder : p.quizId = QuizId}

\* the row createMany writes for an entry of an order
OrderRow(p) == [quizId |-> QuizId, userId |-> p.userId, orderIndex |-> p.orderIndex]

\* getDefaultParticipantOrder: the persisted rows by orderIndex; with no
\* rows, the contestants of the quiz in query order, which it persists
getDefaultParticipantOrder ==
    IF OrderRowsOfQuiz = {}
    THEN LET users == ContestantSeq(NumContestants)
             order == [i \in 1..Len(users) |-> [userId |-> users[i], orderIndex |-> i - 1]]
         IN [order |-> order,
             rows |-> dbParticipantOrder \cup {OrderRow(order[i]) : i \in 1..Len(order)}]
    ELSE [order |-> ByOrderIndex({[userId |-> p.userId, orderIndex |-> p.orderIndex] :
                                     p \in OrderRowsOfQuiz}),
          rows |-> dbParticipantOrder]

\* redisService.getParticipantOrder(quizId) || getDefaultParticipantOrder(quizId)
ResolveOrder ==
    IF Has(participantsCache, QuizId)
    THEN [order |-> participantsCache[QuizId], rows |-> dbParticipantOrder]
    ELSE getDefaultParticipantOrder

\* getParticipantCount: Math.max(participantOrders.length, users.length, 1)
getParticipantCount ==
    Max2(Max2(Cardinality(OrderRowsOfQuiz), NumContestants), 1)

\* the unique indexes (quizId, userId) and (quizId, orderIndex) of
\* ParticipantOrder, which createMany must satisfy
ViolatesOrderKeys(payload) ==
    \E i, j \in 1..Len(payload) :
        /\ i # j
        /\ \/ payload[i].userId = payload[j].userId
           \/ payload[i].orderIndex = payload[j].orderIndex

\* @SubscribeMessage('updateParticipantOrder')
handleUpdateParticipantOrder(c, payload) ==
    IF Role(c) # "MODERATOR"
    THEN Rejected("Only moderators can update participant order")
    ELSE IF \E r \in DOMAIN dbRounds : dbRounds[r].quizId = QuizId /\ dbRounds[r].isActive
    THEN Rejected("Cannot change order after round has started")
    ELSE IF ViolatesOrderKeys(payload)
    THEN Thrown("Failed to update participant order", "Unique constraint failed", Stored)
    ELSE [err |-> "none",
          emits |-> <<[event |-> "participantOrderUpdated", to |-> "room",
                       participantOrder |-> payload]>>,
          next |-> [Stored EXCEPT
              !.dbParticipantOrder = (@ \ OrderRowsOfQuiz)
                                     \cup {OrderRow(payload[i]) : i \in 1..Len(payload)},
              !.participantsCache = Put(@, QuizId, payload)]]

\* ------------------------------------------------------ QuestionsService
\* mapRoundTypeToQuestionType
mapRoundTypeToQuestionType(roundType) ==
    IF roundType = "yes_no" THEN "yes_no" ELSE "multiple_choice"

Unanswered ==
    {q \in DOMAIN dbQuestions : dbQuestions[q].quizId = QuizId /\ ~dbQuestions[q].isAnswered}

\* getQuestionsForRound; an argument left out (undefined) is passed as 0,
\* which `||` and `&&` treat alike
getQuestionsForRound(roundType, participantCount, questionsPerParticipant) ==
    IF roundType = "simultaneous"
    THEN LET totalQuestionsNeeded ==
                 (IF participantCount = 0 THEN 1 ELSE participantCount)
                 * (IF questionsPerParticipant = 0 THEN 3 ELSE questionsPerParticipant)
         IN Take(ByQuestionNumber(Unanswered), totalQuestionsNeeded)
    ELSE LET questionType == mapRoundTypeToQuestionType(roundType)
             ofType == {q \in Unanswered : dbQuestions[q].questionType = questionType}
         IN IF questionsPerParticipant = 0
            THEN ByQuestionNumber(ofType)
            ELSE Take(ByQuestionNumber(ofType), questionsPerParticipant)

\* QuestionsService.create: the new question takes the tile number after
\* the last one of the quiz
createQuestion ==
    LET numbers == {dbQuestions[q].questionNumber :
                       q \in {x \in DOMAIN dbQuestions : dbQuestions[x].quizId = QuizId}}
        last == IF numbers = {} THEN 0
                ELSE CHOOSE n \in numbers : \A m \in numbers : m <= n
        questionNumber == last + 1
    IN [err |-> "none", emits |-> <<>>,
        next |-> [Stored EXCEPT !.dbQuestions =
                     Put(@, QuestionId(questionNumber), QuestionRow(questionNumber, FALSE))]]

\* QuestionsService.remove: question.delete, which the foreign key of
\* Response refuses for a question that has Responses
removeQuestion(q) ==
    IF ~Has(dbQuestions, q) \/ dbQuestions[q].quizId # QuizId
    THEN [err |-> "Question not found", emits |-> <<>>, next |-> Stored]
    ELSE IF \E x \in dbResponses : x.questionId = q
    THEN [err |-> "Foreign key constraint failed", emits |-> <<>>, next |-> Stored]
    ELSE [err |-> "none", emits |-> <<>>,
          next |-> [Stored EXCEPT !.dbQuestions = Del(@, q)]]

\* QuestionsService.markAsAnswered
markAsAnswered(q) ==
    IF ~Has(dbQuestions, q)
    THEN [err |-> "Record to update not found", emits |-> <<>>, next |-> Stored]
    ELSE [err |-> "none", emits |-> <<>>,
          next |-> [Stored EXCEPT !.dbQuestions[q].isAnswered = TRUE]]

\* getQuestionRequirements: the requirement of one round, with the 25% buffer
roundRequirement(round, participantCount) ==
    CeilFiveQuarters(participantCount * round.questionsPerParticipant)

RECURSIVE SumRequirements(_, _)
SumRequirements(S, participantCount) ==
    IF S = {} THEN 0
    ELSE LET r == CHOOSE x \in S : TRUE
         IN roundRequirement(dbRounds[r], participantCount)
            + SumRequirements(S \ {r}, participantCount)

\* the rounds of the quiz
RoundsOfQuiz == {r \in DOMAIN dbRounds : dbRounds[r].quizId = QuizId}

\* getQuestionRequirements(quizId).requiredQuestions
requiredQuestions ==
    SumRequirements(RoundsOfQuiz,
                    Max2(Max2(NumContestants, Cardinality(OrderRowsOfQuiz)), 1))

\* --------------------------------------------------------- round handlers
\* questions.slice(startIndex, endIndex)
Slice(s, startIndex, endIndex) ==
    SubSeq(s, startIndex + 1, Min2(endIndex, Len(s)))

\* the chunks of simultaneousRoundStarted.participantQuestions, by userId
participantQuestions(order, questions, questionsPerParticipant) ==
    LET users == {order[i].userId : i \in 1..Len(order)}
        \* a later entry of the same user overwrites an earlier one
        lastOf(u) == CHOOSE i \in 1..Len(order) :
                        order[i].userId = u
                        /\ \A j \in (i + 1)..Len(order) : order[j].userId # u
    IN [u \in users |->
          Slice(questions, (lastOf(u) - 1) * questionsPerParticipant,
                (lastOf(u) - 1) * questionsPerParticipant + questionsPerParticipant)]

\* a question as the round cache holds it: the copy of its row taken when
\* the round was loaded, which later changes of the Question table leave alone
cachedQuestion(q) ==
    LET n == CHOOSE i \in 1..NumQuestions : QuestionId(i) = q
    IN [id |-> q, questionNumber |-> QuestionRow(n, FALSE).questionNumber,
        correctAnswerIndex |-> QuestionRow(n, FALSE).correctAnswerIndex]

\* a question sent whole, as the cache holds it
wholeQuestion(question) == question

\* clientQuestions: questions.map(q => ({ id, questionText, options, points }))
clientQuestion(question) == [id |-> question.id]

\* a startRound that loads the questions of the round from the Question
\* table each time, whether or not the round has a cached list
startRoundReloading(c, r) ==
    IF Role(c) # "MODERATOR"
    THEN Rejected("Only moderators can start rounds")
    ELSE IF ~Has(dbRounds, r) \/ dbRounds[r].quizId # QuizId
    THEN Rejected("Round not found")
    ELSE LET round == dbRounds[r]
             questions ==
                 getQuestionsForRound(round.quizType, getParticipantCount,
                                      round.questionsPerParticipant)
             resolved == ResolveOrder
             order == resolved.order
             loaded == [Stored EXCEPT !.dbRounds[r].isActive = TRUE,
                                      !.roundQuestionsCache = Put(@, r, questions)]
             indexed == [loaded EXCEPT !.currentQuestionCache = Put(@, r, 0),
                                       !.dbParticipantOrder = resolved.rows]
         IN IF Len(questions) = 0
            THEN [Rejected("No questions available for this round")
                     EXCEPT !.next = loaded]
            ELSE IF Len(order) = 0
            THEN [Rejected("No participants found for this quiz")
                     EXCEPT !.next = indexed]
            ELSE IF round.quizType = "simultaneous"
            THEN [err |-> "none",
                  emits |-> <<[event |-> "simultaneousRoundStarted", to |-> "room",
                               roundId |-> r,
                               participantQuestions |->
                                   participantQuestions(order, questions,
                                                        round.questionsPerParticipant),
                               questionsPerParticipant |->
                                   round.questionsPerParticipant]>>,
                  next |-> indexed]
            ELSE [err |-> "none",
                  emits |-> <<[event |-> "roundStarted", to |-> "room", roundId |-> r,
                               currentQuestion |->
                                   clientQuestion(cachedQuestion(questions[1])),
                               activeUserId |-> order[1].userId,
                               participantOrder |-> order]>>,
                  next |-> [indexed EXCEPT !.activeParticipantCache =
                               Put(@, QuizId, order[1].userId)]]

\* @SubscribeMessage('startRound'): the round is marked active and its
\* questions are cached before the checks that can still fail
handleStartRound(c, r) ==
    IF Role(c) # "MODERATOR"
    THEN Rejected("Only moderators can start rounds")
    ELSE IF ~Has(dbRounds, r) \/ dbRounds[r].quizId # QuizId
    THEN Rejected("Round not found")
    ELSE LET round == dbRounds[r]
             questions ==
                 IF Has(roundQuestionsCache, r)
                 THEN roundQuestionsCache[r]
                 ELSE getQuestionsForRound(round.quizType, getParticipantCount,
                                           round.questionsPerParticipant)
             resolved == ResolveOrder
             order == resolved.order
             loaded == [Stored EXCEPT !.dbRounds[r].isActive = TRUE,
                                      !.roundQuestionsCache = Put(@, r, questions)]
             indexed == [loaded EXCEPT !.currentQuestionCache = Put(@, r, 0),
                                       !.dbParticipantOrder = resolved.rows]
         IN IF Len(questions) = 0
            THEN [Rejected("No questions available for this round")
                     EXCEPT !.next = loaded]
            ELSE IF Len(order) = 0
            THEN [Rejected("No participants found for this quiz")
                     EXCEPT !.next = indexed]
            ELSE IF round.quizType = "simultaneous"
            THEN [err |-> "none",
                  emits |-> <<[event |-> "simultaneousRoundStarted", to |-> "room",
                               roundId |-> r,
                               participantQuestions |->
                                   participantQuestions(order, questions,
                                                        round.questionsPerParticipant),
                               questionsPerParticipant |->
                                   round.questionsPerParticipant]>>,
                  next |-> indexed]
            ELSE [err |-> "none",
                  emits |-> <<[event |-> "roundStarted", to |-> "room", roundId |-> r,
                               currentQuestion |->
                                   clientQuestion(cachedQuestion(questions[1])),
                               activeUserId |-> order[1].userId,
                               participantOrder |-> order]>>,
                  next |-> [indexed EXCEPT !.activeParticipantCache =
                               Put(@, QuizId, order[1].userId)]]

\* handleCheckRoundReadiness: the report of roundReadinessCheck
readinessReport(r) ==
    LET round == dbRounds[r]
        availableQuestions == getQuestionsForRound(round.quizType, 0, 0)
        requiredForThisRound == CeilDiv(requiredQuestions, Cardinality(RoundsOfQuiz))
        isReady == Len(availableQuestions) >= requiredForThisRound
        previousRounds == {p \in RoundsOfQuiz :
                              dbRounds[p].roundNumber < round.roundNumber}
        incompletePreviousRounds ==
            {p \in previousRounds : ~dbRounds[p].isActive /\ round.roundNumber > 1}
    IN [event |-> "roundReadinessCheck", to |-> "client", roundId |-> r,
        isReady |-> isReady,
        canStart |-> (isReady /\ incompletePreviousRounds = {}),
        required |-> requiredForThisRound,
        available |-> Len(availableQuestions),
        shortage |-> Max2(0, requiredForThisRound - Len(availableQuestions)),
        previousRoundsCompleted |-> (incompletePreviousRounds = {}),
        incompletePreviousRounds |-> incompletePreviousRounds]

\* a checkRoundReadiness that stores the available questions it counted as
\* the question list of the round
checkReadinessLoadingRound(c, r) ==
    IF Role(c) # "MODERATOR"
    THEN Rejected("Only moderators can check round readiness")
    ELSE IF ~Has(dbRounds, r) \/ dbRounds[r].quizId # QuizId
    THEN Rejected("Round not found")
    ELSE [err |-> "none", emits |-> <<readinessReport(r)>>,
          next |-> [Stored EXCEPT !.roundQuestionsCache =
                       Put(@, r, getQuestionsForRound(dbRounds[r].quizType, 0, 0))]]

\* @SubscribeMessage('checkRoundReadiness')
handleCheckRoundReadiness(c, r) ==
    IF Role(c) # "MODERATOR"
    THEN Rejected("Only moderators can check round readiness")
    ELSE IF ~Has(dbRounds, r) \/ dbRounds[r].quizId # QuizId
    THEN Rejected("Round not found")
    ELSE [err |-> "none", emits |-> <<readinessReport(r)>>, next |-> Stored]

\* ------------------------------------------------------------------ Init
\* The quiz as the quiz-management endpoints leave it: rounds not started,
\* no participant order rows, no responses, no scores.  The round settings
\* are inputs.
RoundRow(i, type, qpp) ==
    [quizId |-> QuizId, roundNumber |-> i, quizType |-> type, questionsPerParticipant |-> qpp,
     isActive |-> FALSE]

\* the question snapshots RedisService.cacheQuizQuestions stores
QuestionSnapshot ==
    [q \in {x \in DOMAIN dbQuestions : dbQuestions[x].quizId = QuizId} |->
        [correctAnswerIndex |-> dbQuestions[q].correctAnswerIndex]]

\* round settings of a quiz: the type and questionsPerParticipant of each round
RoundSettings ==
    [1..NumRounds -> [quizType : QuizTypes, questionsPerParticipant : 1..MaxQpp]]

InitDb(settings, questionCount) ==
    /\ dbRounds = [r \in RoundIds |->
                     LET i == CHOOSE n \in 1..NumRounds : RoundId(n) = r
                     IN RoundRow(i, settings[i].quizType,
                                 settings[i].questionsPerParticipant)]
    /\ dbQuestions = [q \in {QuestionId(i) : i \in 1..questionCount} |->
                        LET n == CHOOSE i \in 1..questionCount : QuestionId(i) = q
                        IN QuestionRow(n, FALSE)]
    /\ dbParticipantOrder = {}
    /\ dbResponses = {}
    /\ dbScores = <<>>

\* The cache is an external store.  The gateway never writes the key
\* quiz:{quizId}:questions itself; whether it is present when the session
\* starts is an input.
InitCache(snapshots) ==
    /\ quizQuestionsCache \in snapshots
    /\ roundQuestionsCache = EmptyMap
    /\ participantsCache = EmptyMap
    /\ activeParticipantCache = EmptyMap
    /\ currentQuestionCache = EmptyMap
    /\ selectedAnswerCache = EmptyMap
    /\ answeredQuestionsCache = EmptyMap

Snapshot == [k \in {QuizId} |-> QuestionSnapshot]

\* a quiz that alternates sequential and simultaneous rounds, every round
\* with the same questionsPerParticipant
Alternating ==
    {s \in RoundSettings :
        \A i \in 1..NumRounds :
            /\ s[i].quizType = IF i % 2 = 1 THEN "multiple_choice" ELSE "simultaneous"
            /\ s[i].questionsPerParticipant = s[1].questionsPerParticipant}

\* a played session: the snapshot of the questions may or may not be cached
Init ==
    /\ \E settings \in Alternating : InitDb(settings, PlayedQuestions)
    /\ InitCache({EmptyMap, Snapshot})
    /\ bonusState = EmptyMap
    /\ bonusTimer = {}

\* any quiz, as the gateway alone leaves the cache: no snapshot
InitRounds ==
    /\ \E settings \in RoundSettings, questionCount \in 0..NumQuestions :
          InitDb(settings, questionCount)
    /\ InitCache({EmptyMap})
    /\ bonusState = EmptyMap
    /\ bonusTimer = {}

\* a played session entered with a bonus state in memory
BonusStates ==
    {[k \in {QuizId} |->
         [originalUserId |-> UserId(1), bonusUserId |-> UserId(NumContestants),
          questionId |-> QuestionId(1), isActive |-> on]] : on \in BOOLEAN}

InitBonus ==
    /\ \E settings \in {s \in Alternating : s[1].questionsPerParticipant = 1} :
          InitDb(settings, PlayedQuestions)
    /\ InitCache({Snapshot})
    /\ bonusState \in BonusStates
    /\ bonusTimer = {}

\* the cache key of another quiz for a round or a question: the keys of
\* RedisService start with quiz:{quizId}, so the same id under two quizzes
\* is two keys
OtherKey(id) == OtherQuiz \o ":" \o id

\* the rows and the cache entries of a second quiz in progress: its
\* sequential round is started, its contestant has the turn, has answered
\* its question through submitSimultaneousAnswer and has a selection pending
OtherQuestionRow ==
    [quizId |-> OtherQuiz, questionNumber |-> 1, questionType |-> "multiple_choice",
     correctAnswerIndex |-> 0, isAnswered |-> FALSE]
OtherRoundRow ==
    [quizId |-> OtherQuiz, roundNumber |-> 1, quizType |-> "multiple_choice",
     questionsPerParticipant |-> 1, isActive |-> TRUE]
OtherOrderRow == [quizId |-> OtherQuiz, userId |-> OtherUser, orderIndex |-> 0]
OtherResponse ==
    [userId |-> OtherUser, quizId |-> OtherQuiz, roundId |-> OtherRound,
     questionId |-> OtherQuestion, selectedIndex |-> 0, isCorrect |-> TRUE,
     pointsEarned |-> 2]
OtherScore ==
    [userId |-> OtherUser, quizId |-> OtherQuiz, roundId |-> OtherRound,
     roundScore |-> 2, questionsAnswered |-> 1, questionsCorrect |-> 1]

\* two quizzes side by side: a session of the first, with one question, is
\* entered while the second is in progress
InitQuizzes ==
    /\ \E settings \in {s \in Alternating : s[1].questionsPerParticipant = 1} :
          dbRounds = [r \in RoundIds \cup {OtherRound} |->
                        IF r = OtherRound THEN OtherRoundRow
                        ELSE LET i == CHOOSE n \in 1..NumRounds : RoundId(n) = r
                             IN RoundRow(i, settings[i].quizType,
                                         settings[i].questionsPerParticipant)]
    /\ dbQuestions = [q \in {QuestionId(1), OtherQuestion} |->
                        IF q = OtherQuestion THEN OtherQuestionRow
                        ELSE QuestionRow(1, FALSE)]
    /\ dbParticipantOrder = {OtherOrderRow}
    /\ dbResponses = {OtherResponse}
    /\ dbScores = <<OtherScore>>
    /\ quizQuestionsCache =
           [k \in {QuizId, OtherQuiz} |->
               IF k = QuizId THEN QuestionSnapshot
               ELSE [q \in {OtherQuestion} |->
                        [correctAnswerIndex |-> OtherQuestionRow.correctAnswerIndex]]]
    /\ roundQuestionsCache = [k \in {OtherKey(OtherRound)} |-> <<OtherQuestion>>]
    /\ participantsCache =
           [k \in {OtherQuiz} |-> <<[userId |-> OtherUser, orderIndex |-> 0]>>]
    /\ activeParticipantCache = [k \in {OtherQuiz} |-> OtherUser]
    /\ currentQuestionCache = [k \in {OtherKey(OtherRound)} |-> 0]
    /\ selectedAnswerCache =
           [k \in {OtherKey(OtherQuestion)} |->
               [userId |-> OtherUser, selectedIndex |-> 1]]
    /\ answeredQuestionsCache = [k \in {OtherQuiz} |-> <<OtherQuestion>>]
    /\ bonusState = EmptyMap
    /\ bonusTimer = {}

\* ------------------------------------------------------------------ Next
\* the session bounds, counted on the quiz the commands name
WithinSession(st) ==
    /\ Cardinality({x \in st.dbResponses : x.quizId = QuizId}) <= MaxResponses
    /\ Cardinality(DOMAIN st.selectedAnswerCache \ {OtherKey(OtherQuestion)})
           <= MaxSelections

\* a handler runs to completion and leaves its result stored
Handle(res) == WithinSession(res.next) /\ Install(res.next)

\* payloads of the commands
RoundPayloads == DOMAIN dbRounds \cup {UnknownRound}
OrderRows == [userId : Contestants, orderIndex : 0..(NumContestants - 1)]
OrderPayloads ==
    {p \in [1..NumContestants -> OrderRows] :
        \A i \in 1..Len(p) : p[i].orderIndex = i - 1}

Next ==
    \/ \E c \in Clients, payload \in OrderPayloads :
          Handle(handleUpdateParticipantOrder(c, payload))
    \/ \E c \in Clients, r \in RoundPayloads : Handle(handleStartRound(c, r))
    \/ \E c \in Clients, r \in RoundPayloads : Handle(handleCheckRoundReadiness(c, r))
    \/ \E c \in Clients, q \in DOMAIN dbQuestions, sel \in Options :
          Handle(handleSelectAnswer(c, q, sel))
    \/ \E c \in Clients, r \in RoundPayloads, q \in DOMAIN dbQuestions :
          Handle(handleConfirmAnswer(c, r, q))
    \/ \E c \in Clients, r \in RoundPayloads, q \in DOMAIN dbQuestions, sel \in Options :
          Handle(handleAutoConfirmAnswer(c, r, q, sel))
    \/ \E c \in Clients, r \in RoundPayloads, q \in DOMAIN dbQuestions, sel \in Options :
          Handle(handleSubmitSimultaneousAnswer(c, r, q, sel))
    \/ \E c \in Clients, q \in DOMAIN dbQuestions :
          Handle(handleSkipQuestion(c, NumberOf(q)))
    \/ \E c \in Clients, r \in RoundPayloads : Handle(handleEndSimultaneousSession(c, r))

\* the delayed call processAnswer schedules
Timer == \E r \in bonusTimer : Handle(autoAdvanceAfterBonus(r))

NextBonus == Next \/ Timer

Spec == Init /\ [][Next]_vars
SpecRounds == InitRounds /\ [][Next]_vars
SpecBonus == InitBonus /\ [][NextBonus]_vars
SpecQuizzes == InitQuizzes /\ [][Next]_vars

\* the question pool changes while the session runs: the quiz-management
\* endpoints create, remove and mark questions.  The model creates the
\* numbers after the PoolQuestions initial ones and removes the initial
\* ones, so that no id stands for two questions, and keeps at most
\* MaxPoolChanges questions different from the pool the session started with.
PoolQuestions == 1
MaxPoolChanges == 1
PoolChanges(st) ==
    Cardinality({i \in 1..NumQuestions :
        IF i <= PoolQuestions
        THEN ~Has(st.dbQuestions, QuestionId(i)) \/ st.dbQuestions[QuestionId(i)].isAnswered
        ELSE Has(st.dbQuestions, QuestionId(i))})

Pool(res) == PoolChanges(res.next) <= MaxPoolChanges /\ Handle(res)

CreateQuestion ==
    /\ Cardinality(DOMAIN dbQuestions) = PoolQuestions
    /\ Has(dbQuestions, QuestionId(PoolQuestions))
    /\ Pool(createQuestion)
RemoveQuestion == \E i \in 1..PoolQuestions : Pool(removeQuestion(QuestionId(i)))
MarkAsAnswered == \E q \in DOMAIN dbQuestions : Pool(markAsAnswered(q))

NextPool == Next \/ CreateQuestion \/ RemoveQuestion \/ MarkAsAnswered

\* a session over a pool of PoolQuestions questions
InitPool ==
    /\ \E settings \in {s \in Alternating : s[1].questionsPerParticipant = 1} :
          InitDb(settings, PoolQuestions)
    /\ InitCache({Snapshot})
    /\ bonusState = EmptyMap
    /\ bonusTimer = {}

SpecPool == InitPool /\ [][NextPool]_vars

\* ---------------------------------------------------------------- claims
\* names of the specification for what the code reports
DuplicateResponse == "User has already answered this question"
RoundAlreadyActive == "Cannot change order after round has started"

SequentialRound(r) == Has(dbRounds, r) /\ dbRounds[r].quizType # "simultaneous"
Answered(u, q) == \E x \in dbResponses : x.userId = u /\ x.questionId = q

\* this step is the moderator's confirmAnswer of q in round r, scored
ManualConfirm(r, q) ==
    LET res == handleConfirmAnswer(ModeratorId, r, q)
    IN res.err = "none" /\ Install(res.next)

\* this step is the moderator's autoConfirmAnswer of q in round r, scored
AutoConfirm(r, q) ==
    \E sel \in Options :
        LET res == handleAutoConfirmAnswer(ModeratorId, r, q, sel)
        IN res.err = "none" /\ Install(res.next)

\* the order of the participants as persisted, p0..p(N-1)
StoredOrder == ByOrderIndex(dbParticipantOrder)

\* after the turn of the active participant: the next participant of the
\* order at the same question index, or, after the last participant, the
\* first one at the next index; past the last question the round is over
TurnPasses(r) ==
    LET order == StoredOrder
        i == FindIndex(order, activeParticipantCache[QuizId]) + 1
        index == currentQuestionCache[r]
    IN IF i < Len(order)
       THEN /\ activeParticipantCache'[QuizId] = order[i + 1].userId
            /\ currentQuestionCache'[r] = index
       ELSE IF index + 1 < Len(roundQuestionsCache[r])
       THEN /\ activeParticipantCache'[QuizId] = order[1].userId
            /\ currentQuestionCache'[r] = index + 1
       ELSE ~dbRounds'[r].isActive

\* C1: in a sequential round the turn visits the participants p0..p(N-1) in
\* order, each once per question index: every scored turn of the active
\* participant passes the turn to the next participant at the same index,
\* and from the last participant to the first at the next index.
C1_RoundRobin ==
    [][\A r \in RoundIds, q \in DOMAIN dbQuestions :
          ( /\ SequentialRound(r) /\ dbRounds[r].isActive
            /\ Has(currentQuestionCache, r)
            /\ Has(activeParticipantCache, QuizId)
            /\ FindIndex(StoredOrder, activeParticipantCache[QuizId]) >= 0
            /\ (ManualConfirm(r, q) \/ AutoConfirm(r, q)) )
          => TurnPasses(r)]_vars

\* the result of a command refused as a duplicate: nothing persisted, the
\* leaderboard as it was
RejectedAsDuplicate(res) ==
    /\ res.err = DuplicateResponse
    /\ EventNames(res) = {"error"}
    /\ res.next.dbResponses = dbResponses
    /\ res.next.dbScores = dbScores
    /\ getQuizLeaderboard(res.next.dbScores) = getQuizLeaderboard(dbScores)

\* C2: at most one Response per (participant, question); a second submit
\* for a pair that has a Response is rejected as a duplicate, persists
\* nothing and leaves the leaderboard as it was.
C2_OneResponsePerPair ==
    /\ \A x, y \in dbResponses :
          (x.userId = y.userId /\ x.questionId = y.questionId) => x = y
    /\ \A r \in RoundIds, q \in DOMAIN dbQuestions, sel \in Options :
          /\ \A c \in Contestants :
                Answered(c, q) =>
                    RejectedAsDuplicate(handleSubmitSimultaneousAnswer(c, r, q, sel))
          /\ (Has(activeParticipantCache, QuizId)
              /\ Answered(activeParticipantCache[QuizId], q))
             => RejectedAsDuplicate(handleAutoConfirmAnswer(ModeratorId, r, q, sel))
          /\ (Has(selectedAnswerCache, q)
              /\ Answered(selectedAnswerCache[q].userId, q))
             => RejectedAsDuplicate(handleConfirmAnswer(ModeratorId, r, q))

\* a Response exists and the same submit, sent again, is the duplicate
C2_SecondSubmit ==
    \E x \in dbResponses :
        handleSubmitSimultaneousAnswer(x.userId, x.roundId, x.questionId,
                                       x.selectedIndex).err = DuplicateResponse

\* C3: a manual confirmAnswer of Q followed by the autoConfirmAnswer of the
\* same Q leaves one scored Response: in the state the confirmation leaves,
\* the auto-confirm of Q persists no Response, whatever index it carries.
C3_OneScoredResponse ==
    [][\A r \in RoundIds, q \in DOMAIN dbQuestions :
          ( /\ SequentialRound(r) /\ dbRounds[r].isActive
            /\ Has(selectedAnswerCache, q)
            /\ Has(activeParticipantCache, QuizId)
            /\ selectedAnswerCache[q].userId = activeParticipantCache[QuizId]
            /\ ManualConfirm(r, q) )
          => (\A sel \in Options :
                 handleAutoConfirmAnswer(ModeratorId, r, q, sel).next.dbResponses
                     = dbResponses)']_vars


\* the cached correct option of a question
CorrectOption(q) == quizQuestionsCache[QuizId][q].correctAnswerIndex

\* the Responses persisted for question q
ResponsesFor(responses, q) == {x \in responses : x.questionId = q}

\* B's bonus answer for q is persisted (correct, 1 point) and A has no
\* Response for q: the point of the bonus flow where A answers q again
BonusAnswered(r, q) ==
    /\ SequentialRound(r)
    /\ Has(bonusState, QuizId)
    /\ bonusState[QuizId].questionId = q
    /\ Has(quizQuestionsCache, QuizId)
    /\ ~Answered(bonusState[QuizId].originalUserId, q)
    /\ \E x \in dbResponses :
          /\ x.userId = bonusState[QuizId].bonusUserId
          /\ x.questionId = q /\ x.roundId = r
          /\ x.isCorrect /\ x.pointsEarned = 1

FirstRoundStarted ==
    \E r \in RoundIds : dbRounds[r].roundNumber = 1 /\ Has(roundQuestionsCache, r)

\* C5: once startRound has been called for the first round, every
\* updateParticipantOrder is rejected with RoundAlreadyActive and leaves the
\* persisted and the cached order unchanged, whether or not the round is
\* still active.
C5_ReorderRejected ==
    FirstRoundStarted =>
        \A payload \in OrderPayloads :
            LET res == handleUpdateParticipantOrder(ModeratorId, payload)
            IN /\ res.err = RoundAlreadyActive
               /\ res.next.dbParticipantOrder = dbParticipantOrder
               /\ res.next.participantsCache = participantsCache

\* the unanswered questions a round of this type draws from
OfRoundType(r) ==
    IF dbRounds[r].quizType = "simultaneous"
    THEN Unanswered
    ELSE {q \in Unanswered :
             dbQuestions[q].questionType = mapRoundTypeToQuestionType(dbRounds[r].quizType)}

\* the roundReadinessCheck event checkRoundReadiness sends for round r
ReadinessOf(r) == handleCheckRoundReadiness(ModeratorId, r).emits[1]

\* C6: checkRoundReadiness for round R reports
\* required = ceil(participantCount * R.questionsPerParticipant * 1.25),
\* available = the number of unanswered questions of R's type,
\* shortage = max(0, required - available), isReady = (available >= required).
C6_ReadinessNumbers ==
    \A r \in RoundIds :
        LET required == CeilFiveQuarters(NumContestants * dbRounds[r].questionsPerParticipant)
            available == Cardinality(OfRoundType(r))
        IN /\ ReadinessOf(r).required = required
           /\ ReadinessOf(r).available = available
           /\ ReadinessOf(r).shortage = Max2(0, required - available)
           /\ ReadinessOf(r).isReady = (available >= required)

\* the rounds before r that are still flagged active
ActiveBefore(r) ==
    {p \in RoundIds : dbRounds[p].roundNumber < dbRounds[r].roundNumber
                      /\ dbRounds[p].isActive}

\* C7: checkRoundReadiness for round R reports canStart exactly when isReady
\* holds and no round with a smaller roundNumber is still active, and then
\* the list of unmet prerequisite rounds is empty.
C7_CanStart ==
    \A r \in RoundIds :
        /\ ReadinessOf(r).canStart = (ReadinessOf(r).isReady /\ ActiveBefore(r) = {})
        /\ (ReadinessOf(r).isReady /\ ActiveBefore(r) = {})
              => ReadinessOf(r).incompletePreviousRounds = {}

\* the question ids of a chunk
IdsOf(chunk) == {chunk[i] : i \in 1..Len(chunk)}

\* C8: when a simultaneous round starts with questionsPerParticipant = k,
\* every participant of the order receives exactly k questions, the i-th
\* participant the i-th contiguous chunk of the pool, and no question is in
\* two chunks.
C8_DisjointChunks ==
    \A r \in RoundIds :
        LET res == handleStartRound(ModeratorId, r)
        IN (dbRounds[r].quizType = "simultaneous" /\ res.err = "none") =>
              LET k == dbRounds[r].questionsPerParticipant
                  order == ResolveOrder.order
                  pool == res.next.roundQuestionsCache[r]
                  chunks == res.emits[1].participantQuestions
              IN /\ \A i \in 1..Len(order) :
                        /\ order[i].userId \in DOMAIN chunks
                        /\ Len(chunks[order[i].userId]) = k
                        /\ chunks[order[i].userId]
                               = [j \in 1..k |-> pool[(i - 1) * k + j]]
                 /\ \A u, w \in DOMAIN chunks :
                        u # w => IdsOf(chunks[u]) \cap IdsOf(chunks[w]) = {}


\* the leaderboard entries of a participant
EntriesOf(board, u) == {i \in 1..Len(board) : board[i].userId = u}

\* C9: the leaderboard totalScore of every participant equals the sum of
\* pointsEarned over all Responses persisted for that participant; a
\* participant has at most one entry, and none only while the sum is 0.
C9_LeaderboardTotals ==
    LET board == getQuizLeaderboard(dbScores)
    IN \A u \in Contestants :
          LET mine == {x \in dbResponses : x.userId = u}
          IN /\ Cardinality(EntriesOf(board, u)) <= 1
             /\ \A i \in EntriesOf(board, u) : board[i].totalScore = SumPoints(mine)
             /\ EntriesOf(board, u) = {} => SumPoints(mine) = 0

\* a participant with scored Responses in two rounds, whose leaderboard
\* entry shows their sum
C9_TwoRoundsScored ==
    \E x, y \in dbResponses :
        /\ x.userId = y.userId /\ x.roundId # y.roundId
        /\ x.pointsEarned > 0 /\ y.pointsEarned > 0
        /\ \E i \in 1..Len(getQuizLeaderboard(dbScores)) :
              /\ getQuizLeaderboard(dbScores)[i].userId = x.userId
              /\ getQuizLeaderboard(dbScores)[i].totalScore
                     = x.pointsEarned + y.pointsEarned

\* the points table of the specification, by mode, answer kind and correctness
PointsTable(mode, answerKind, isCorrect) ==
    IF ~isCorrect THEN 0
    ELSE IF mode = "Simultaneous" /\ answerKind = "normal" THEN 5
    ELSE IF mode = "Sequential" /\ answerKind = "normal" THEN 2
    ELSE IF mode = "Sequential" /\ answerKind = "bonus" THEN 1
    ELSE IF mode = "Sequential" /\ answerKind = "original_return" THEN 2
    ELSE 0 - 1

ModeOf(r) == IF dbRounds[r].quizType = "simultaneous" THEN "Simultaneous" ELSE "Sequential"

RoundStartedOf(res) == Emitted(res, "roundStarted")

Completed(r) == Has(roundQuestionsCache, r) /\ ~dbRounds[r].isActive

\* the turn events of a result: turn advance and round completion
TurnEvents(res) == EventNames(res) \cap {"nextParticipant", "roundCompleted"}

\* C12: once a round has completed (active = false, roundCompleted
\* broadcast) and until it is started again, no command emits a further
\* nextParticipant or a second roundCompleted for that round.
C12_NoTurnAfterCompletion ==
    \A r \in RoundIds :
        Completed(r) =>
            \A q \in DOMAIN dbQuestions :
                /\ TurnEvents(handleConfirmAnswer(ModeratorId, r, q)) = {}
                /\ \A sel \in Options :
                       TurnEvents(handleAutoConfirmAnswer(ModeratorId, r, q, sel)) = {}


\* C13: the question list a sequential round loads at its start has at least
\* participantCount * questionsPerParticipant questions, all unanswered and
\* of the round's type, in ascending question number.
C13_SequentialList ==
    \A r \in RoundIds :
        LET res == handleStartRound(ModeratorId, r)
        IN (SequentialRound(r) /\ res.err = "none") =>
              LET list == res.next.roundQuestionsCache[r]
              IN /\ Len(list) >= NumContestants * dbRounds[r].questionsPerParticipant
                 /\ \A i \in 1..Len(list) : list[i] \in OfRoundType(r)
                 /\ \A i, j \in 1..Len(list) :
                        i < j => NumberOf(list[i]) < NumberOf(list[j])


\* the questions round r needs, with the 25% buffer, and those it can draw
RequiredFor(r) == CeilFiveQuarters(NumContestants * dbRounds[r].questionsPerParticipant)
AvailableFor(r) == Cardinality(OfRoundType(r))

\* C14: startRound for a round with fewer available questions than required
\* (zero included) fails with an error and leaves the session as it was: the
\* round's active flag, the active participant and the question index are
\* unchanged.
C14_StartRefused ==
    \A r \in RoundIds :
        (~Has(roundQuestionsCache, r) /\ AvailableFor(r) < RequiredFor(r)) =>
            LET res == handleStartRound(ModeratorId, r)
            IN /\ res.err # "none"
               /\ "error" \in EventNames(res)
               /\ res.next.dbRounds[r].isActive = dbRounds[r].isActive
               /\ res.next.activeParticipantCache = activeParticipantCache
               /\ res.next.currentQuestionCache = currentQuestionCache


NotYourTurn == "Only the active participant can select an answer"

\* contestant c is not the active participant
NotActive(c) == ~Has(activeParticipantCache, QuizId) \/ activeParticipantCache[QuizId] # c

\* C15: selectAnswer from a contestant who is not the active participant is
\* rejected with NotYourTurn, stores or overwrites no pending selection and
\* changes nothing else.
C15_NotYourTurn ==
    \A c \in Contestants, q \in DOMAIN dbQuestions, sel \in Options :
        NotActive(c) =>
            LET res == handleSelectAnswer(c, q, sel)
            IN /\ res.err = NotYourTurn
               /\ EventNames(res) = {"error"}
               /\ res.next.selectedAnswerCache = selectedAnswerCache
               /\ res.next = Stored

\* a sequential round is active, its active participant has a pending
\* selection for q, and another contestant's selectAnswer for q is refused
C15_OthersSelectionRefused ==
    \E r \in RoundIds, c \in Contestants, q \in DOMAIN dbQuestions :
        /\ SequentialRound(r) /\ dbRounds[r].isActive
        /\ Has(activeParticipantCache, QuizId) /\ activeParticipantCache[QuizId] # c
        /\ Has(selectedAnswerCache, q)
        /\ selectedAnswerCache[q].userId = activeParticipantCache[QuizId]
        /\ \A sel \in Options : handleSelectAnswer(c, q, sel).err = NotYourTurn


\* a command refused: an error to the sender, nothing else emitted, nothing
\* stored
Refused(res) ==
    /\ res.err # "none"
    /\ EventNames(res) = {"error"}
    /\ res.next = Stored

\* C16: role gating: startRound, updateParticipantOrder, checkRoundReadiness,
\* confirmAnswer and autoConfirmAnswer from a client that is not a moderator,
\* and selectAnswer and submitSimultaneousAnswer from a client that is not a
\* contestant, are rejected with an error and change no session state, no
\* round flag and no Response.
C16_RoleGating ==
    \A c \in Clients, r \in RoundPayloads, q \in DOMAIN dbQuestions, sel \in Options :
        /\ c # ModeratorId =>
              /\ Refused(handleStartRound(c, r))
              /\ \A payload \in OrderPayloads :
                     Refused(handleUpdateParticipantOrder(c, payload))
              /\ Refused(handleCheckRoundReadiness(c, r))
              /\ Refused(handleConfirmAnswer(c, r, q))
              /\ Refused(handleAutoConfirmAnswer(c, r, q, sel))
        /\ c \notin Contestants =>
              /\ Refused(handleSelectAnswer(c, q, sel))
              /\ Refused(handleSubmitSimultaneousAnswer(c, r, q, sel))

\* a pending selection that the moderator's confirmAnswer would score, while
\* the same confirmAnswer sent by the contestant who selected is refused
C16_ContestantConfirmRefused ==
    \E r \in RoundIds, q \in DOMAIN dbQuestions :
        /\ dbRounds[r].isActive
        /\ Has(selectedAnswerCache, q)
        /\ handleConfirmAnswer(ModeratorId, r, q).err = "none"
        /\ handleConfirmAnswer(selectedAnswerCache[q].userId, r, q).err
               = "Only moderators can confirm answers"


\* C17: a confirmAnswer for question Q that finds the pending-selection slot
\* of Q empty (never set, or cleared by an earlier confirmation) is a no-op:
\* it persists no Response, changes neither the active participant nor the
\* question index nor the leaderboard, and broadcasts nothing.
C17_IdempotentConfirm ==
    \A r \in RoundPayloads, q \in DOMAIN dbQuestions :
        ~Has(selectedAnswerCache, q) =>
            LET res == handleConfirmAnswer(ModeratorId, r, q)
            IN /\ res.next.dbResponses = dbResponses
               /\ res.next.activeParticipantCache = activeParticipantCache
               /\ res.next.currentQuestionCache = currentQuestionCache
               /\ getQuizLeaderboard(res.next.dbScores) = getQuizLeaderboard(dbScores)
               /\ EventNames(res) \subseteq {"error"}
               /\ res.next = Stored

\* Q was selected and confirmed in an active sequential round (its Response
\* is persisted and its slot is cleared), and a second confirmAnswer of Q
\* finds nothing selected
C17_ConfirmedTwice ==
    \E x \in dbResponses :
        /\ SequentialRound(x.roundId) /\ dbRounds[x.roundId].isActive
        /\ ~Has(selectedAnswerCache, x.questionId)
        /\ Has(activeParticipantCache, QuizId)
        /\ handleConfirmAnswer(ModeratorId, x.roundId, x.questionId).err
               = "No answer selected for this question"


\* C18: an autoConfirmAnswer for a question of a round that has already
\* completed persists no Response, changes neither the active participant nor
\* the question index nor the round's active flag, and emits no roundCompleted
\* or nextParticipant event.
C18_DanglingAutoConfirm ==
    \A r \in RoundIds :
        Completed(r) =>
            \A q \in DOMAIN dbQuestions, sel \in Options :
                LET res == handleAutoConfirmAnswer(ModeratorId, r, q, sel)
                IN /\ res.next.dbResponses = dbResponses
                   /\ res.next.activeParticipantCache = activeParticipantCache
                   /\ res.next.currentQuestionCache = currentQuestionCache
                   /\ res.next.dbRounds[r].isActive = dbRounds[r].isActive
                   /\ TurnEvents(res) = {}


\* the answer was validated and persisting its Response failed
PersistenceFailed(r, u, q, sel) ==
    /\ validateAnswer(q, sel).err = "none"
    /\ processAnswer(r, u, q, sel).err # "none"

ResultEvents(res) == EventNames(res) \cap {"answerResult", "leaderboardUpdate"}

MissedQuestion(r, q) ==
    /\ SequentialRound(r) /\ dbRounds[r].isActive
    /\ Has(activeParticipantCache, QuizId) /\ Has(participantsCache, QuizId)
    /\ Len(participantsCache[QuizId]) > 0
    /\ \E x \in dbResponses : x.roundId = r /\ x.questionId = q /\ ~x.isCorrect

\* the participant after u in the cached order, wrapping from last to first
NextInOrder(u) ==
    LET order == participantsCache[QuizId]
    IN order[((FindIndex(order, u) + 1) % Len(order)) + 1].userId

\* C20: a moderator's dispatchBonus after an incorrect answer in a sequential
\* round creates the bonus state with originalParticipantId = the active
\* participant, bonusParticipantId = the next participant in order (wrapping),
\* questionId = the missed question, makes the bonus participant the active
\* participant and leaves currentQuestionIndex unchanged.
C20_DispatchBonus ==
    \A r \in RoundIds, q \in DOMAIN dbQuestions :
        MissedQuestion(r, q) =>
            LET res == handleDispatchBonus(ModeratorId, q)
                active == activeParticipantCache[QuizId]
            IN /\ Has(res.next.bonusState, QuizId)
               /\ res.next.bonusState[QuizId].originalUserId = active
               /\ res.next.bonusState[QuizId].bonusUserId = NextInOrder(active)
               /\ res.next.bonusState[QuizId].questionId = q
               /\ res.next.activeParticipantCache[QuizId] = NextInOrder(active)
               /\ res.next.currentQuestionCache = currentQuestionCache


\* a bonus is pending in the active sequential round r: the bonus
\* participant holds the turn for the question of the bonus state
BonusPending(r) ==
    /\ SequentialRound(r) /\ dbRounds[r].isActive
    /\ Has(bonusState, QuizId) /\ bonusState[QuizId].isActive
    /\ Has(activeParticipantCache, QuizId)
    /\ activeParticipantCache[QuizId] = bonusState[QuizId].bonusUserId

ReturnPending(r) ==
    /\ SequentialRound(r) /\ dbRounds[r].isActive
    /\ Has(bonusState, QuizId) /\ ~bonusState[QuizId].isActive
    /\ Has(activeParticipantCache, QuizId)
    /\ activeParticipantCache[QuizId] = bonusState[QuizId].originalUserId
    /\ Has(participantsCache, QuizId) /\ Len(participantsCache[QuizId]) > 0
    /\ Has(roundQuestionsCache, r) /\ Has(currentQuestionCache, r)

\* st is the stored state with the turn moved once from u: to the next
\* participant in order, to the next question when the order wraps, or to
\* the end of the round after its last question
AdvancedOnce(st, r, u) ==
    LET order == participantsCache[QuizId]
        n == (FindIndex(order, u) + 1) % Len(order)
        index == IF n = 0 THEN currentQuestionCache[r] + 1 ELSE currentQuestionCache[r]
    IN IF index >= Len(roundQuestionsCache[r])
       THEN ~st.dbRounds[r].isActive
       ELSE /\ st.activeParticipantCache[QuizId] = order[n + 1].userId
            /\ st.currentQuestionCache[r] = index
            /\ st.dbRounds[r].isActive

\* the result of a confirmation that recorded the OriginalReturn answer of
\* the original participant u: the bonus state is gone, the delayed
\* auto-advance is scheduled and the turn has moved once
ReturnRecorded(res, r, u) ==
    /\ ~Has(res.next.bonusState, QuizId)
    /\ r \in res.next.bonusTimer
    /\ \E x \in res.next.dbResponses \ dbResponses : x.userId = u /\ x.roundId = r
    /\ AdvancedOnce(res.next, r, u)

FirstRowOf(u) ==
    CHOOSE i \in 1..Len(dbScores) :
        dbScores[i].userId = u /\ \A j \in 1..(i - 1) : dbScores[j].userId # u

\* C23: the leaderboard is sorted by totalScore in non-increasing order, its
\* positions are exactly 1..n in sequence, it has one entry per participant
\* with a Score row, and entries with equal totals stand in the order in which
\* their participants were first seen among the Score rows.
C23_LeaderboardOrder ==
    LET board == getQuizLeaderboard(dbScores)
    IN /\ \A i \in 1..Len(board) : board[i].position = i
       /\ {board[i].userId : i \in 1..Len(board)}
              = {dbScores[i].userId : i \in 1..Len(dbScores)}
       /\ \A i, j \in 1..Len(board) :
             i < j =>
                /\ board[i].userId # board[j].userId
                /\ board[i].totalScore >= board[j].totalScore
                /\ board[i].totalScore = board[j].totalScore
                       => FirstRowOf(board[i].userId) < FirstRowOf(board[j].userId)

\* two participants are on the leaderboard, and either they are tied on a
\* positive total or the participant seen second leads
C23_TieOrOvertake ==
    LET board == getQuizLeaderboard(dbScores)
    IN /\ Len(board) = 2
       /\ board[1].totalScore > 0
       /\ \/ board[1].totalScore = board[2].totalScore
          \/ FirstRowOf(board[1].userId) > FirstRowOf(board[2].userId)


\* the events of res a contestant's client receives: those sent to the quiz
\* room, and those sent to the sender when the sender c is a contestant
SeenByContestants(res, c) ==
    {res.emits[i] : i \in {j \in 1..Len(res.emits) :
        res.emits[j].to = "room" \/ (res.emits[j].to = "client" /\ c \in Contestants)}}

\* C24: no event a contestant's client receives, directly or through the
\* broadcast to the quiz room, carries a question's correct-answer index.
C24_NoCorrectIndexToContestants ==
    \A r \in RoundPayloads, q \in DOMAIN dbQuestions, sel \in Options :
        /\ \A e \in SeenByContestants(handleAutoConfirmAnswer(ModeratorId, r, q, sel),
                                      ModeratorId) :
              "correctAnswerIndex" \notin DOMAIN e
        /\ \A c \in Contestants :
              \A e \in SeenByContestants(handleSubmitSimultaneousAnswer(c, r, q, sel), c) :
                  "correctAnswerIndex" \notin DOMAIN e


\* C25: the lifecycle of a round is monotone, Idle -> Active -> Completed: a
\* startRound on a round that is already active or already completed resets
\* neither currentQuestionIndex nor the active participant, and does not make
\* a completed round active again.
C25_MonotoneLifecycle ==
    \A r \in RoundIds :
        (dbRounds[r].isActive \/ Completed(r)) =>
            LET res == handleStartRound(ModeratorId, r)
            IN /\ res.next.currentQuestionCache = currentQuestionCache
               /\ res.next.activeParticipantCache = activeParticipantCache
               /\ Completed(r) => ~res.next.dbRounds[r].isActive


\* orders as a client may send them: any participant at any index up to one
\* past the last valid index
AnyOrderPayloads ==
    [1..NumContestants -> [userId : Contestants, orderIndex : 0..NumContestants]]

\* the order repeats a participant or an index, or its indices are not
\* exactly 0..n-1
Malformed(payload) ==
    \/ \E i, j \in 1..Len(payload) :
          i # j /\ (payload[i].userId = payload[j].userId
                    \/ payload[i].orderIndex = payload[j].orderIndex)
    \/ {payload[i].orderIndex : i \in 1..Len(payload)} # 0..(Len(payload) - 1)

\* C26: an updateParticipantOrder whose order repeats an index or a
\* participant, or whose indices leave a gap, is rejected with an error and
\* leaves the persisted and the cached order unchanged.
C26_MalformedOrderRejected ==
    \A payload \in AnyOrderPayloads :
        Malformed(payload) =>
            LET res == handleUpdateParticipantOrder(ModeratorId, payload)
            IN /\ res.err # "none"
               /\ res.next.dbParticipantOrder = dbParticipantOrder
               /\ res.next.participantsCache = participantsCache


SimultaneousRound(r) ==
    Has(dbRounds, r) /\ dbRounds[r].quizType = "simultaneous" /\ dbRounds[r].isActive

\* the result leaves the round flags and the turn cursor as they are stored
CursorKept(res) ==
    /\ res.next.dbRounds = dbRounds
    /\ res.next.activeParticipantCache = activeParticipantCache
    /\ res.next.currentQuestionCache = currentQuestionCache

\* C27: in a simultaneous round no submitSimultaneousAnswer, skipQuestion or
\* endSimultaneousSession of a contestant changes a round's active flag, the
\* active participant or the question index (so no sequence of them does),
\* and skipQuestion persists no Response and changes no score.
C27_SimultaneousFrame ==
    \A r \in RoundIds, c \in Contestants, q \in DOMAIN dbQuestions :
        SimultaneousRound(r) =>
            /\ \A sel \in Options :
                  CursorKept(handleSubmitSimultaneousAnswer(c, r, q, sel))
            /\ CursorKept(handleEndSimultaneousSession(c, r))
            /\ LET skip == handleSkipQuestion(c, NumberOf(q))
               IN /\ CursorKept(skip)
                  /\ skip.err = "none"
                  /\ skip.next.dbResponses = dbResponses
                  /\ skip.next.dbScores = dbScores

\* an answer was submitted and scored in the simultaneous round, which is
\* still active
C27_SimultaneousAnswered ==
    \E r \in RoundIds :
        /\ SimultaneousRound(r)
        /\ \E x \in dbResponses : x.roundId = r
        /\ \E i \in 1..Len(dbScores) : dbScores[i].roundId = r


\* the state of the second quiz: what the queries and the cache keys of
\* that quiz select
Entry(f, k) == IF Has(f, k) THEN <<f[k]>> ELSE <<>>
IsOfOtherQuiz(row) == row.quizId = OtherQuiz
OtherQuizState(st) ==
    [participantOrder |-> {p \in st.dbParticipantOrder : p.quizId = OtherQuiz},
     cachedOrder |-> Entry(st.participantsCache, OtherQuiz),
     activeParticipant |-> Entry(st.activeParticipantCache, OtherQuiz),
     questionIndex |-> Entry(st.currentQuestionCache, OtherKey(OtherRound)),
     selection |-> Entry(st.selectedAnswerCache, OtherKey(OtherQuestion)),
     rounds |-> {<<r, st.dbRounds[r]>> :
                    r \in {x \in DOMAIN st.dbRounds : st.dbRounds[x].quizId = OtherQuiz}},
     responses |-> {x \in st.dbResponses : x.quizId = OtherQuiz},
     scores |-> SelectSeq(st.dbScores, IsOfOtherQuiz)]

\* C28: a command naming the quiz leaves the state of the other quiz as it
\* was (its participant order, active participant, question index, pending
\* selection, round active flags, Responses and scores), whichever round id
\* and question id the payload carries, the other quiz's included
C28_SessionIsolation ==
    [][OtherQuizState(Stored)' = OtherQuizState(Stored)]_vars

\* a contestant's answer was scored by a command that names the quiz and
\* carries the round id of the other quiz
C28_AnsweredInOtherRound ==
    /\ dbRounds[OtherRound].isActive
    /\ \E x \in dbResponses : x.quizId = QuizId /\ x.roundId = OtherRound

\* the result leaves the turn where it is stored
TurnKept(res) ==
    /\ res.next.activeParticipantCache = activeParticipantCache
    /\ res.next.currentQuestionCache = currentQuestionCache

\* C29: a confirmAnswer followed by an autoConfirmAnswer for the same question
\* moves the turn exactly once: the auto-confirm that comes second changes
\* neither the active participant nor the question index; and a confirmAnswer
\* that comes after the auto-confirm of the question does not move the turn
\* again.
C29_SingleAdvance ==
    [][\A r \in RoundIds, q \in DOMAIN dbQuestions :
          ( /\ SequentialRound(r) /\ dbRounds[r].isActive
            /\ Has(selectedAnswerCache, q)
            /\ Has(activeParticipantCache, QuizId)
            /\ selectedAnswerCache[q].userId = activeParticipantCache[QuizId] )
          => /\ ManualConfirm(r, q)
                  => (\A sel \in Options :
                         TurnKept(handleAutoConfirmAnswer(ModeratorId, r, q, sel)))'
             /\ AutoConfirm(r, q)
                  => TurnKept(handleConfirmAnswer(ModeratorId, r, q))']_vars


\* startRound succeeded for r: the round is active, its question list is
\* loaded and not empty, and its question index is set
Started(r) ==
    /\ dbRounds[r].isActive
    /\ Has(roundQuestionsCache, r) /\ Len(roundQuestionsCache[r]) > 0
    /\ Has(currentQuestionCache, r)
    /\ Has(participantsCache, QuizId) \/ dbParticipantOrder # {}

LoadedQuestions(r) == {roundQuestionsCache[r][i] : i \in 1..Len(roundQuestionsCache[r])}

\* C30: after a successful startRound, validating an answer to any question
\* of the round's loaded list succeeds and yields isCorrect exactly when the
\* selected option is the question's correct option; so a confirmAnswer of a
\* pending selection on such a question, not yet answered by its participant,
\* persists a Response.
C30_LoadedQuestionsValidate ==
    \A r \in RoundIds :
        Started(r) =>
            \A q \in LoadedQuestions(r) :
                /\ \A sel \in Options :
                      LET v == validateAnswer(q, sel)
                      IN /\ v.err = "none"
                         /\ v.isCorrect = (sel = dbQuestions[q].correctAnswerIndex)
                /\ (Has(selectedAnswerCache, q)
                    /\ ~Answered(selectedAnswerCache[q].userId, q))
                      => handleConfirmAnswer(ModeratorId, r, q).next.dbResponses
                             # dbResponses


\* a sequential round in play: active, its questions loaded, the turn on a
\* participant of the persisted order
InPlay(r) ==
    /\ SequentialRound(r) /\ dbRounds[r].isActive
    /\ Has(roundQuestionsCache, r) /\ Len(roundQuestionsCache[r]) >= 1
    /\ Has(currentQuestionCache, r)
    /\ currentQuestionCache[r] < Len(roundQuestionsCache[r])
    /\ Has(activeParticipantCache, QuizId)
    /\ FindIndex(StoredOrder, activeParticipantCache[QuizId]) >= 0

\* the turns a round still has to go through before it is completed: N * Q
\* less the turns before the one in play; none once the round is inactive
TurnsLeft(st, r) ==
    LET order == ByOrderIndex(st.dbParticipantOrder)
    IN IF ~st.dbRounds[r].isActive THEN 0
       ELSE Len(order) * Len(st.roundQuestionsCache[r])
            - (st.currentQuestionCache[r] * Len(order)
               + FindIndex(order, st.activeParticipantCache[QuizId]))

\* C31: in a sequential round with N participants and Q loaded questions
\* every confirmed turn (confirmAnswer or autoConfirmAnswer) takes exactly
\* one of the N * Q turns: the round is completed by the confirmation of the
\* last of them, neither earlier nor later.
C31_CompletesAfterAllTurns ==
    \A r \in RoundIds, q \in DOMAIN dbQuestions :
        InPlay(r) =>
            LET manual == handleConfirmAnswer(ModeratorId, r, q)
            IN /\ manual.err = "none" =>
                      TurnsLeft(manual.next, r) = TurnsLeft(Stored, r) - 1
               /\ \A sel \in Options :
                      LET auto == handleAutoConfirmAnswer(ModeratorId, r, q, sel)
                      IN auto.err = "none" =>
                             TurnsLeft(auto.next, r) = TurnsLeft(Stored, r) - 1


\* the round has just been started with the default order: no order was
\* set by updateParticipantOrder, the first participant of the persisted
\* default order has the turn and no answer of the round is scored yet
StartedWithDefaultOrder(r) ==
    /\ InPlay(r)
    /\ ~Has(participantsCache, QuizId)
    /\ Len(StoredOrder) >= 2
    /\ activeParticipantCache[QuizId] = StoredOrder[1].userId
    /\ currentQuestionCache[r] = 0
    /\ ~\E x \in dbResponses : x.roundId = r

\* C32: with no order set by updateParticipantOrder, the first confirmed
\* answer of a sequential round with at least two participants passes the
\* turn to the second participant of the default order.
C32_DefaultOrderRotation ==
    \A r \in RoundIds, q \in DOMAIN dbQuestions :
        StartedWithDefaultOrder(r) =>
            LET manual == handleConfirmAnswer(ModeratorId, r, q)
            IN /\ manual.err = "none" =>
                      manual.next.activeParticipantCache[QuizId] = StoredOrder[2].userId
               /\ \A sel \in Options :
                      LET auto == handleAutoConfirmAnswer(ModeratorId, r, q, sel)
                      IN auto.err = "none" =>
                             auto.next.activeParticipantCache[QuizId]
                                 = StoredOrder[2].userId


\* the results of every command a client can send in this state
CommandResults ==
    {handleUpdateParticipantOrder(c, payload) : c \in Clients, payload \in OrderPayloads}
    \cup {handleStartRound(c, r) : c \in Clients, r \in RoundPayloads}
    \cup {handleCheckRoundReadiness(c, r) : c \in Clients, r \in RoundPayloads}
    \cup {handleSelectAnswer(c, q, sel) :
             c \in Clients, q \in DOMAIN dbQuestions, sel \in Options}
    \cup {handleConfirmAnswer(c, r, q) :
             c \in Clients, r \in RoundPayloads, q \in DOMAIN dbQuestions}
    \cup {handleAutoConfirmAnswer(c, r, q, sel) :
             c \in Clients, r \in RoundPayloads, q \in DOMAIN dbQuestions, sel \in Options}
    \cup {handleSubmitSimultaneousAnswer(c, r, q, sel) :
             c \in Clients, r \in RoundPayloads, q \in DOMAIN dbQuestions, sel \in Options}
    \cup {handleSkipQuestion(c, NumberOf(q)) : c \in Clients, q \in DOMAIN dbQuestions}
    \cup {handleEndSimultaneousSession(c, r) : c \in Clients, r \in RoundPayloads}

\* the results of the changes of the question pool
PoolResults ==
    {createQuestion}
    \cup {removeQuestion(QuestionId(i)) : i \in 1..PoolQuestions}
    \cup {markAsAnswered(q) : q \in DOMAIN dbQuestions}

\* the list a startRound would load from the Question table now
ListFromPool(r) ==
    getQuestionsForRound(dbRounds[r].quizType, getParticipantCount,
                         dbRounds[r].questionsPerParticipant)

\* C33: while a round is active its cached question list is the one loaded
\* when it was started: no command and no change of the question pool
\* replaces it, a repeated startRound broadcasts its first question and
\* every turn advance broadcasts the question of that list at the new index.
C33_LoadedListStable ==
    \A r \in RoundIds :
        (dbRounds[r].isActive /\ Has(roundQuestionsCache, r)) =>
            LET list == roundQuestionsCache[r]
            IN /\ \A res \in CommandResults \cup PoolResults :
                      /\ Has(res.next.roundQuestionsCache, r)
                      /\ res.next.roundQuestionsCache[r] = list
               /\ \A c \in Clients :
                      \A e \in Emitted(handleStartRound(c, r), "roundStarted") :
                          e.currentQuestion = clientQuestion(cachedQuestion(list[1]))
               /\ \A c \in Clients, q \in DOMAIN dbQuestions, sel \in Options :
                      \A e \in Emitted(handleConfirmAnswer(c, r, q), "nextParticipant")
                               \cup Emitted(handleAutoConfirmAnswer(c, r, q, sel),
                                            "nextParticipant") :
                          /\ e.questionIndex < Len(list)
                          /\ e.currentQuestion = list[e.questionIndex + 1]

\* the pool has changed under a running sequential round: the turn has
\* moved on, and a startRound now would load another list from the table
C33_PoolChangedMidRound ==
    \E r \in RoundIds :
        /\ SequentialRound(r) /\ dbRounds[r].isActive
        /\ Has(roundQuestionsCache, r) /\ roundQuestionsCache[r] # <<>>
        /\ ListFromPool(r) # roundQuestionsCache[r]
        /\ Has(activeParticipantCache, QuizId) /\ Has(participantsCache, QuizId)
        /\ activeParticipantCache[QuizId] # participantsCache[QuizId][1].userId


\* the answered-question list of the session, and its ids
AnsweredList(st) ==
    IF Has(st.answeredQuestionsCache, QuizId) THEN st.answeredQuestionsCache[QuizId]
    ELSE <<>>
AnsweredSet(st) == {AnsweredList(st)[i] : i \in 1..Len(AnsweredList(st))}

\* C34: a scored answer of kind normal or original_return adds its question
\* to the answered-question set of the session, a scored bonus answer leaves
\* the set as it was, and the list never holds a question id twice.
C34_AnsweredSet ==
    /\ Cardinality(AnsweredSet(Stored)) = Len(AnsweredList(Stored))
    /\ \A r \in RoundPayloads, u \in Contestants, q \in DOMAIN dbQuestions, sel \in Options :
          LET res == processAnswer(r, u, q, sel)
          IN res.err = "none" =>
                IF res.answerType = "bonus"
                THEN AnsweredList(res.next) = AnsweredList(Stored)
                ELSE /\ res.answerType \in {"normal", "original_return"}
                     /\ AnsweredSet(res.next) = AnsweredSet(Stored) \cup {q}
                     /\ Cardinality(AnsweredSet(res.next)) = Len(AnsweredList(res.next))

\* a normal answer has put its question into the list, and a bonus answer
\* has been scored for a question that is not in it
C34_MarkedAndBonusUnmarked ==
    /\ \E x \in dbResponses :
          x.pointsEarned # 1 /\ x.questionId \in AnsweredSet(Stored)
    /\ \E x \in dbResponses :
          x.pointsEarned = 1 /\ x.questionId \notin AnsweredSet(Stored)


\* C35: checkRoundReadiness is read-only: whoever sends it and whichever
\* round it names, it leaves every table and every cached key as they were
\* and answers the sender alone, with one report or one error; a second call
\* therefore finds the state of the first and returns the same report.
C35_ReadinessReadOnly ==
    \A c \in Clients, r \in RoundPayloads :
        LET res == handleCheckRoundReadiness(c, r)
        IN /\ res.next = Stored
           /\ Len(res.emits) = 1
           /\ res.emits[1].to = "client"
           /\ res.emits[1].event = IF res.err = "none" THEN "roundReadinessCheck"
                                   ELSE "error"

\* a session under way in which the moderator's check of a round returns a
\* report: a round is active, an answer is scored and the pool has changed
C35_CheckedMidSession ==
    \E r \in RoundIds :
        /\ handleCheckRoundReadiness(ModeratorId, r).err = "none"
        /\ \E p \in RoundIds : dbRounds[p].isActive
        /\ dbResponses # {}
        /\ PoolChanges(Stored) > 0


\* the participants of an order, in sequence
UsersOf(order) == [i \in 1..Len(order) |-> order[i].userId]

\* the persisted order of a state: its rows by orderIndex
PersistedUsers(st) ==
    UsersOf(ByOrderIndex({p \in st.dbParticipantOrder : p.quizId = QuizId}))

\* the submitted order: the entries of the payload by orderIndex
SubmittedUsers(payload) ==
    UsersOf(ByOrderIndex({payload[i] : i \in 1..Len(payload)}))

\* C36: after a successful updateParticipantOrder the persisted order and
\* the cached order both are the submitted order, and in every reachable
\* state a cached order lists the participants of the persisted order in
\* the same sequence.
C36_OrderReplacedInBothStores ==
    /\ Has(participantsCache, QuizId) =>
           UsersOf(participantsCache[QuizId]) = PersistedUsers(Stored)
    /\ \A payload \in AnyOrderPayloads :
           LET res == handleUpdateParticipantOrder(ModeratorId, payload)
           IN res.err = "none" =>
                 /\ PersistedUsers(res.next) = SubmittedUsers(payload)
                 /\ Has(res.next.participantsCache, QuizId)
                 /\ UsersOf(res.next.participantsCache[QuizId]) = SubmittedUsers(payload)


\* the question of the round at the current question index
CurrentQuestion(r) == roundQuestionsCache[r][currentQuestionCache[r] + 1]

\* the Responses a result persists belong to the participant who has the
\* turn and to the current question of the round
ScoredForTheTurn(res, r) ==
    \A x \in res.next.dbResponses \ dbResponses :
        /\ x.userId = activeParticipantCache[QuizId]
        /\ x.questionId = CurrentQuestion(r)

\* C37: in a sequential round every Response persisted through
\* confirmAnswer or autoConfirmAnswer is the active participant's, for the
\* question at the current question index; a selection or an auto-confirm
\* that names another question of the quiz is not scored.
C37_ScoredForActiveAndCurrent ==
    \A r \in RoundIds, q \in DOMAIN dbQuestions :
        InPlay(r) =>
            /\ ScoredForTheTurn(handleConfirmAnswer(ModeratorId, r, q), r)
            /\ \A sel \in Options :
                   ScoredForTheTurn(handleAutoConfirmAnswer(ModeratorId, r, q, sel), r)


\* a result persists no Response for round r
NothingScoredFor(res, r) ==
    ~\E x \in res.next.dbResponses \ dbResponses : x.roundId = r

\* C38: no Response is persisted for a round that is not active: before the
\* round is started and after it is completed, a confirmAnswer, an
\* autoConfirmAnswer and a submitSimultaneousAnswer that name it score nothing.
C38_NoResponseForInactiveRound ==
    \A r \in RoundIds :
        ~dbRounds[r].isActive =>
            \A q \in DOMAIN dbQuestions :
                /\ NothingScoredFor(handleConfirmAnswer(ModeratorId, r, q), r)
                /\ \A sel \in Options :
                       /\ NothingScoredFor(handleAutoConfirmAnswer(ModeratorId, r, q, sel), r)
                       /\ \A c \in Contestants :
                              NothingScoredFor(
                                  handleSubmitSimultaneousAnswer(c, r, q, sel), r)


\* C39: at most one round of the quiz is flagged active at any time.
C39_OneActiveRound ==
    Cardinality({r \in RoundsOfQuiz : dbRounds[r].isActive}) <= 1


\* the contestants of a sequential round in play who have not had their
\* turn on the current question: not the active one, and no Response for it
Waiting(r) ==
    {u \in Contestants :
        /\ u # activeParticipantCache[QuizId]
        /\ ~Answered(u, CurrentQuestion(r))}

\* the events of a moderator's command that reach every contestant
SeenInRoom(res) ==
    {res.emits[i] : i \in {j \in 1..Len(res.emits) : res.emits[j].to = "room"}}

\* C40: in a sequential round, while a contestant has not yet had the turn
\* on the current question, the confirmation of another participant's
\* answer to that question sends that contestant no event that carries the
\* question's correct-answer index.
C40_WaitingContestantLearnsNothing ==
    \A r \in RoundIds :
        (InPlay(r) /\ Waiting(r) # {}) =>
            LET q == CurrentQuestion(r)
            IN /\ \A e \in SeenInRoom(handleConfirmAnswer(ModeratorId, r, q)) :
                      "correctAnswerIndex" \notin DOMAIN e
               /\ \A sel \in Options :
                      \A e \in SeenInRoom(handleAutoConfirmAnswer(ModeratorId, r, q, sel)) :
                          "correctAnswerIndex" \notin DOMAIN e

====
